---- MODULE Spec2Model ----
(***************************************************************************)
(* Model of the Telegram relay bot (main.py, handlers/*.py, utils/*.py).   *)
(*                                                                         *)
(* The program is a set of asyncio coroutines that share three             *)
(* dictionaries: chat_contexts, chat_temperatures and the per chat         *)
(* chat_data["media_groups"].  Every handler invocation and every          *)
(* process_media_group task is a record in `tasks`; an action of the       *)
(* model is the code a coroutine runs between two suspension points        *)
(* (await), which asyncio executes atomically.  chat.send_message of the   *)
(* backend client is a synchronous call, so it is no suspension point.     *)
(* Temperatures are counted in tenths (1.5 is 15).                         *)
(***************************************************************************)
EXTENDS Integers, Sequences, FiniteSets, TLC

(* ------------------------------ bounds -------------------------------- *)
\* inbound events (handler invocations) in one run
MaxEvents == 3
\* failing platform / backend calls in one run
MaxFail == 1
\* handler invocations in progress at once.  main.py builds the Application
\* without concurrent_updates, so the dispatcher awaits one handler at a
\* time; the flush tasks made with asyncio.create_task run beside them.
MaxInFlight == 1
\* handler invocations in progress at once in an Application built with
\* concurrent_updates, the deployment in which handlers overlap
MaxOverlap == 2

(* ------------------------- program constants --------------------------- *)
DEFAULT_TEMPERATURE == 10
\* photo.file_id[:-7]
SuffixLen == 7
\* 0.0 <= temp_value <= 2.0
MinTemp == 0
MaxTemp == 20

(* ------------------------------ inputs --------------------------------- *)
Chats == {"c1", "c2"}
GroupIds == {"g1", "g2"}
Captions == {"", "cap"}

\* what float() makes of the argument strings the model sends
ParseFloat(s) ==
    CASE s = "1.5"  -> [ok |-> TRUE,  nan |-> FALSE, v |-> 15]
      [] s = "0.0"  -> [ok |-> TRUE,  nan |-> FALSE, v |-> 0]
      [] s = "2.0"  -> [ok |-> TRUE,  nan |-> FALSE, v |-> 20]
      [] s = "3.0"  -> [ok |-> TRUE,  nan |-> FALSE, v |-> 30]
      [] s = "-0.1" -> [ok |-> TRUE,  nan |-> FALSE, v |-> -1]
      [] s = "nan"  -> [ok |-> TRUE,  nan |-> TRUE,  v |-> 0]
      [] OTHER      -> [ok |-> FALSE, nan |-> FALSE, v |-> 0]

ArgLists ==
    { <<>>, <<"abc">>, <<"nan">>, <<"1.5">>, <<"0.0">>, <<"2.0">>,
      <<"3.0">>, <<"-0.1">>, <<"1.5", "0.0">> }

\* a file id is a string; the last SuffixLen characters name the size variant
FileId(prefix, variant) == prefix \o <<variant, "-", "-", "-", "-", "-", "-">>
PhotoSize(prefix, variant, size) ==
    [file_id |-> FileId(prefix, variant), file_size |-> size]

\* update.message.photo: the sizes of one picture, as the platform lists them
PhotoLists ==
    { << PhotoSize(<<"A">>, "s", 1), PhotoSize(<<"A">>, "l", 2) >>,
      << PhotoSize(<<"B">>, "m", 2), PhotoSize(<<"A">>, "m", 1),
         PhotoSize(<<"B">>, "s", 2) >> }

\* response.candidates[0].content.parts, by kind of part
Responses == { <<>>, <<"text">>, <<"text", "blob", "other">> }

(* --------------------------- python dicts ------------------------------ *)
Has(d, k) == k \in DOMAIN d
Put(d, k, v) == [x \in (DOMAIN d) \cup {k} |-> IF x = k THEN v ELSE d[x]]
Pop(d, k) == [x \in (DOMAIN d) \ {k} |-> d[x]]
Get(d, k, default) == IF Has(d, k) THEN d[k] ELSE default
EmptyDict == [x \in {} |-> 0]

\* an optional value: <<>> is None, <<v>> is v
None == <<>>
Some(v) == <<v>>

VARIABLES
    chat_contexts,      \* shared_context.chat_contexts: chat id -> handle
    chat_temperatures,  \* shared_context.chat_temperatures: chat id -> tenths
    media_groups,       \* chat id -> context.chat_data["media_groups"]
    tasks,              \* every handler invocation and flush task, by creation
    history,            \* every backend conversation: its owner and its turns
    promised,           \* chat id -> the value a /settemp has confirmed and
                        \*   no later message has used up (observer)
    failures,           \* failed calls so far
    process             \* the process: its credentials, whether main() got
                        \*   to run_polling, how many updates it handles at once

vars == <<chat_contexts, chat_temperatures, media_groups, tasks, history,
          promised, failures, process>>


(* ------------------------------ tasks ---------------------------------- *)
\* One coroutine: a handler invocation or a process_media_group task.
\*   pc          where it is suspended: "greet", "reply", "download",
\*               "sleep", "dispatch", "notice" (the message after a photo
\*               that could not be sent); "done" (returned); "raised" (an
\*               exception left the coroutine)
\*   temperature the value of the local `temperature` / config_with_temp
\*   msg         the text of the send_message it is suspended in
\*   guarded     that send_message is inside the handler's try block
\*   pending     files still to download; got: files downloaded
\*   batch       the media group a flush task popped
\*   resp        response parts not yet dispatched
\*   out         what the coroutine has sent to its chat, in order, with
\*               "photo_failed" for a send_photo that raised
\*   response    observer: the parts of the response as the backend gave it
\*   declared    observer: the mime type the platform declared for the file
\*   photo       observer: update.message.photo of the handler's message
\*   animated    observer: the sticker of the message is animated or a video
\*   owed, armedBy, before   observers: the /settemp value promised to the
\*               message, the handler invocation that created a flush task,
\*               and the handle stored for the chat when the handler began
Task(kind, c) ==
    [kind |-> kind, chat |-> c, pc |-> "done",
     temperature |-> DEFAULT_TEMPERATURE, args |-> <<>>, mgid |-> None,
     caption |-> "", mime |-> "", msg |-> "", guarded |-> FALSE,
     pending |-> <<>>, got |-> <<>>, batch |-> None, resp |-> <<>>,
     out |-> <<>>, response |-> <<>>, declared |-> "", photo |-> <<>>,
     animated |-> FALSE, owed |-> None, armedBy |-> 0,
     before |-> IF Has(chat_contexts, c) THEN Some(chat_contexts[c]) ELSE None]

\* handle_file (handlers/file.py) is a handler like the others, though
\* main.py registers none for documents
HandlerKinds ==
    {"start", "clear", "settemp", "text", "image", "sticker", "audio",
     "voice", "video", "file"}

Events == Cardinality({i \in DOMAIN tasks : tasks[i].kind \in HandlerKinds})
InFlight ==
    Cardinality({i \in DOMAIN tasks : /\ tasks[i].kind \in HandlerKinds
                                      /\ tasks[i].pc \notin {"done", "raised"}})
\* a new update is handed to its handler
Arrive ==
    /\ process.state = "serving"
    /\ Events < MaxEvents
    /\ InFlight < process.concurrent_updates

\* the outcomes a call may have: it may fail while the budget lasts
Outcomes == IF failures < MaxFail THEN {TRUE, FALSE} ELSE {TRUE}
Failed(ok) == IF ok THEN failures ELSE failures + 1

\* configure_gemini: create_gemini_client raises when the credential is unset
Configured == process.GEMINI_API_KEY
\* the outcomes of create_gemini_client followed by create_new_chat
CreateOutcomes == IF Configured THEN Outcomes ELSE {TRUE, FALSE}
\* a failed session creation counts as a failed call when the credential is set
FailedCreate(created) == Failed(created \/ ~Configured)

Last(s) == s[Len(s)]

(* ------------------------- session factory ----------------------------- *)
\* a request part
TextPart(text) == [kind |-> "text", text |-> text, mime |-> "", data |-> None]
BlobPart(mime, file) ==
    [kind |-> "blob", text |-> "", mime |-> mime, data |-> Some(file)]

\* create_new_chat: a new conversation primed with the system prefix
NewChat_Inherit(c, tid) ==
    [chat |-> c, by |-> tid,
     turns |-> IF Has(chat_contexts, c)
               THEN history[chat_contexts[c]].turns
               ELSE << [role |-> "system", temperature |-> None,
                        parts |-> <<TextPart("PREFIX_SYS")>>, by |-> tid] >>]
NewChat_Unprimed(c, tid) == [chat |-> c, by |-> tid, turns |-> <<>>]
NewChat(c, tid) ==
    [chat |-> c, by |-> tid,
     turns |-> << [role |-> "system", temperature |-> None,
                   parts |-> <<TextPart("PREFIX_SYS")>>, by |-> tid] >>]

\* `if chat_id not in chat_contexts`
NeedsSession_Always(c) == TRUE
NeedsSession_Never(c) == FALSE
NeedsSession(c) == ~Has(chat_contexts, c)

\* `if chat_id in chat_contexts` of /clear
ClearApplies_Inverted(c) == ~Has(chat_contexts, c)
ClearApplies(c) == Has(chat_contexts, c)

\* chat_temperatures.get(chat_id, DEFAULT_TEMPERATURE)
EffectiveTemperature(c) == Get(chat_temperatures, c, DEFAULT_TEMPERATURE)

\* chat_contexts[chat_id].send_message(message=parts, config=config_with_temp)
UserTurn(tid, temperature, parts) ==
    [role |-> "user", temperature |-> Some(temperature), parts |-> parts,
     by |-> tid]
SendMessage(h, turn) ==
    [history EXCEPT ![h].turns = Append(@, turn)]

(* ------------------------------- Init ---------------------------------- *)
Init ==
    /\ chat_contexts = EmptyDict
    /\ chat_temperatures = EmptyDict
    /\ media_groups = [c \in Chats |-> EmptyDict]
    /\ tasks = <<>>
    /\ history = <<>>
    /\ promised = [c \in Chats |-> None]
    /\ failures = 0
    /\ process = [TELEGRAM_BOT_TOKEN |-> TRUE, GEMINI_API_KEY |-> TRUE,
                  state |-> "serving", concurrent_updates |-> MaxInFlight]

(* --------------------------- /start ------------------------------------ *)
\* start.py 22: `if chat_id not in chat_contexts`, evaluated when the await
\* of the greeting has returned
StartNeedsSession_AtEntry(t) == tasks[t].before = None
StartNeedsSession_Always(t) == TRUE
StartNeedsSession(t) == NeedsSession(tasks[t].chat)

\* start.py 8-20: the handler runs up to the await of the greeting
Start(c) ==
    /\ Arrive
    /\ tasks' = Append(tasks, [Task("start", c) EXCEPT !.pc = "greet"])
    /\ UNCHANGED <<chat_contexts, chat_temperatures, media_groups, history,
                   promised, failures, process>>

\* start.py 13-27: the greeting is delivered, then the session is ensured
StartResume(t, sent, created) ==
    /\ tasks[t].kind = "start" /\ tasks[t].pc = "greet"
    /\ LET c == tasks[t].chat IN
       IF ~sent
       THEN /\ created
            /\ tasks' = [tasks EXCEPT ![t].pc = "raised"]
            /\ UNCHANGED <<chat_contexts, chat_temperatures, history>>
       ELSE IF ~StartNeedsSession(t)
       THEN /\ created
            /\ tasks' = [tasks EXCEPT ![t].pc = "done",
                                      ![t].out = Append(@, "welcome")]
            /\ UNCHANGED <<chat_contexts, chat_temperatures, history>>
       ELSE IF ~created
       THEN /\ tasks' = [tasks EXCEPT ![t].pc = "raised",
                                      ![t].out = Append(@, "welcome")]
            /\ UNCHANGED <<chat_contexts, chat_temperatures, history>>
       ELSE /\ Configured
            /\ history' = Append(history, NewChat(c, t))
            /\ chat_contexts' = Put(chat_contexts, c, Len(history) + 1)
            /\ chat_temperatures' = Pop(chat_temperatures, c)
            /\ tasks' = [tasks EXCEPT ![t].pc = "done",
                                      ![t].out = Append(@, "welcome")]
    /\ failures' = IF sent THEN FailedCreate(created) ELSE Failed(FALSE)
    /\ UNCHANGED <<media_groups, promised, process>>

(* --------------------------- /clear ------------------------------------ *)
\* clear.py 7-19, up to the await of the confirmation
Clear(c, created) ==
    /\ Arrive
    /\ LET t == Len(tasks) + 1 IN
       IF ~ClearApplies(c)
       THEN /\ created
            /\ tasks' = Append(tasks, [Task("clear", c) EXCEPT
                                          !.pc = "reply", !.msg = "cleared"])
            /\ UNCHANGED <<chat_contexts, chat_temperatures, history>>
       ELSE IF ~created
       THEN /\ tasks' = Append(tasks, [Task("clear", c) EXCEPT !.pc = "raised"])
            /\ UNCHANGED <<chat_contexts, chat_temperatures, history>>
       ELSE /\ Configured
            /\ history' = Append(history, NewChat(c, t))
            /\ chat_contexts' = Put(chat_contexts, c, Len(history) + 1)
            /\ chat_temperatures' = Pop(chat_temperatures, c)
            /\ tasks' = Append(tasks, [Task("clear", c) EXCEPT
                                          !.pc = "reply", !.msg = "cleared"])
    /\ promised' = [promised EXCEPT ![c] = None]
    /\ failures' = FailedCreate(created)
    /\ UNCHANGED <<media_groups, process>>

(* --------------------------- /settemp ---------------------------------- *)
\* `0.0 <= temp_value <= 2.0`; every comparison with nan is false
InRange_NoUpper(f) == ~f.nan /\ MinTemp <= f.v
InRange_NoLower(f) == ~f.nan /\ f.v <= MaxTemp
InRange_Strict(f) == ~f.nan /\ MinTemp < f.v /\ f.v < MaxTemp
InRange(f) == ~f.nan /\ MinTemp <= f.v /\ f.v <= MaxTemp

\* the message set_temperature.py answers with
SetTempAnswer(args) ==
    IF Len(args) # 1 THEN "usage"
    ELSE IF ~ParseFloat(args[1]).ok THEN "invalid"
    ELSE IF InRange(ParseFloat(args[1])) THEN "tempset"
    ELSE "range"

\* set_temperature.py 6-35, up to the await of the answer
SetTemperature(c, args) ==
    /\ Arrive
    /\ LET answer == SetTempAnswer(args) IN
       /\ tasks' = Append(tasks, [Task("settemp", c) EXCEPT
                                     !.pc = "reply", !.msg = answer,
                                     !.args = args])
       /\ IF answer = "tempset"
          THEN chat_temperatures' =
                  Put(chat_temperatures, c, ParseFloat(args[1]).v)
          ELSE UNCHANGED chat_temperatures
    /\ UNCHANGED <<chat_contexts, media_groups, history, promised, failures,
                   process>>

\* the send_message a handler is suspended in returns or raises
Reply(t, sent) ==
    /\ tasks[t].pc = "reply"
    /\ tasks' =
         IF sent
         THEN [tasks EXCEPT ![t].pc = "done", ![t].msg = "",
                            ![t].out = Append(@, tasks[t].msg)]
         ELSE IF tasks[t].guarded
         THEN [tasks EXCEPT ![t].msg = "error", ![t].guarded = FALSE]
         ELSE [tasks EXCEPT ![t].pc = "raised", ![t].msg = ""]
    /\ promised' =
         IF sent /\ tasks[t].msg = "tempset"
         THEN [promised EXCEPT ![tasks[t].chat] = Some(ParseFloat(tasks[t].args[1]).v)]
         ELSE promised
    /\ failures' = Failed(sent)
    /\ UNCHANGED <<chat_contexts, chat_temperatures, media_groups, history,
                   process>>

(* ------------------------ media aggregation ---------------------------- *)
\* an inbound message carrying media
Message(caption, mgid, photo, mime, animated) ==
    [caption |-> caption, mgid |-> mgid, photo |-> photo, mime |-> mime,
     animated |-> animated]

\* sticker.py 32: `if sticker.is_animated or sticker.is_video`
IsVideoSticker_Never(m) == FALSE
IsVideoSticker(m) == m.animated

\* photo.file_id[:-7]
Key(file_id) == SubSeq(file_id, 1, Len(file_id) - SuffixLen)

\* [photo for photos in media_group["photos"] for photo in photos]
RECURSIVE AllPhotos(_)
AllPhotos_LastOnly(photos) == IF photos = <<>> THEN <<>> ELSE Last(photos)
AllPhotos(photos) ==
    IF photos = <<>> THEN <<>> ELSE Head(photos) \o AllPhotos(Tail(photos))

\* `photo.file_size > unique_images[key].file_size`
Better_Smaller(photo, kept) == photo.file_size < kept.file_size
Better(photo, kept) == photo.file_size > kept.file_size

\* one round of the loop over all_photos; unique_images keeps insertion order
Remember(unique_images, photo) ==
    LET same == {i \in DOMAIN unique_images :
                    Key(unique_images[i].file_id) = Key(photo.file_id)}
    IN  IF same = {} THEN Append(unique_images, photo)
        ELSE [i \in DOMAIN unique_images |->
                 IF i \in same /\ Better(photo, unique_images[i])
                 THEN photo ELSE unique_images[i]]

\* list(unique_images.values()) after the loop over all_photos
RECURSIVE UniqueImages(_, _)
UniqueImages(unique_images, all_photos) ==
    IF all_photos = <<>> THEN unique_images
    ELSE UniqueImages(Remember(unique_images, Head(all_photos)),
                      Tail(all_photos))

\* `"job" not in context.chat_data["media_groups"][media_group_id]`
JobMissing_Always(media_group) == TRUE
JobMissing_Never(media_group) == FALSE
JobMissing(media_group) == media_group.job = None

\* context.chat_data["media_groups"].pop(mgid, None): what stays behind
PopBatch_Keep(groups, g) == groups
PopBatch_All(groups, g) == EmptyDict
PopBatch(groups, g) == Pop(groups, g)

\* image.py 43-44: `if update.message.caption:` the caption replaces the
\* recorded one
ResolvedCaption_Overwrite(old, new) == new
ResolvedCaption(old, new) == IF new # "" THEN new ELSE old

\* image.py 42: `["photos"].append(update.message.photo)`
Appended_Replace(photos, photo) == <<photo>>
Appended(photos, photo) == Append(photos, photo)

\* image.py 34-44: the media group after the message is recorded in it.
\* `from` and `owed` are observers: the invocations that contributed, and
\* the /settemp value promised to one of its messages.
Recorded(groups, g, m, tid, owed) ==
    LET fresh == [photos |-> <<>>, caption |-> m.caption, job |-> None,
                  from |-> <<>>, owed |-> None]
        old == IF Has(groups, g) THEN groups[g] ELSE fresh
    IN  [old EXCEPT !.photos = Appended(@, m.photo),
                    !.caption = ResolvedCaption(@, m.caption),
                    !.from = Append(@, tid),
                    !.owed = IF owed # None THEN owed ELSE @]

\* types.Part(text=caption) followed by one inline_data part per file
Parts_SkipEmptyText(caption, mime, files) ==
    (IF caption # "" THEN <<TextPart(caption)>> ELSE <<>>)
    \o [i \in DOMAIN files |-> BlobPart(mime, files[i])]
Parts(caption, mime, files) ==
    <<TextPart(caption)>> \o [i \in DOMAIN files |-> BlobPart(mime, files[i])]

\* file.py 38-42: `if caption:` the text part is added for a caption only
FileParts(caption, mime, files) ==
    (IF caption # "" THEN <<TextPart(caption)>> ELSE <<>>)
    \o [i \in DOMAIN files |-> BlobPart(mime, files[i])]

\* the parts of the request a coroutine of this kind builds
RequestParts(kind, caption, mime, files) ==
    IF kind = "file" THEN FileParts(caption, mime, files)
    ELSE Parts(caption, IF kind = "flush" THEN "image/jpeg" ELSE mime, files)

\* the mime type of the blob a handler builds
MimeOf_DefaultOnly(kind, declared) ==
    CASE kind = "image"   -> "image/jpeg"
      [] kind = "sticker" -> "image/png"
      [] kind = "audio"   -> "audio/mpeg"
      [] kind = "voice"   -> "audio/ogg"
      [] kind = "file"    -> "application/octet-stream"
      [] OTHER            -> declared
MimeOf(kind, declared) ==
    CASE kind = "image"   -> "image/jpeg"
      [] kind = "sticker" -> "image/png"
      [] kind = "audio"   -> IF declared # "" THEN declared ELSE "audio/mpeg"
      [] kind = "voice"   -> IF declared # "" THEN declared ELSE "audio/ogg"
      [] kind = "file"    -> IF declared # "" THEN declared
                             ELSE "application/octet-stream"
      [] OTHER            -> declared

MediaKinds == {"image", "sticker", "audio", "voice"}

\* image.py 13-97 (and audio.py, voice.py, sticker.py up to their first
\* await): ensure the session, read the temperature, then either record the
\* message in its media group or start the download
HandleMedia(c, kind, m, created) ==
    /\ Arrive
    /\ kind \in MediaKinds
    /\ kind # "image" => m.mgid = None
    /\ kind # "sticker" => ~m.animated
    /\ created \/ NeedsSession(c)
    /\ (created /\ NeedsSession(c)) => Configured
    /\ failures' = FailedCreate(created)
    /\ promised' = [promised EXCEPT ![c] = None]
    /\ LET t == Len(tasks) + 1
           temperature == EffectiveTemperature(c)
           me == [Task(kind, c) EXCEPT !.temperature = temperature,
                                       !.caption = m.caption,
                                       !.mgid = m.mgid,
                                       !.declared = m.mime,
                                       !.photo = m.photo,
                                       !.animated = m.animated,
                                       !.owed = promised[c]]
       IN
       IF ~created
       THEN \* create_new_chat raised outside any try block
            /\ tasks' = Append(tasks, [Task(kind, c) EXCEPT !.pc = "raised"])
            /\ UNCHANGED <<chat_contexts, history, media_groups>>
       ELSE
       /\ IF NeedsSession(c)
          THEN /\ history' = Append(history, NewChat(c, t))
               /\ chat_contexts' = Put(chat_contexts, c, Len(history) + 1)
          ELSE UNCHANGED <<chat_contexts, history>>
       /\ IF m.mgid # None
          THEN LET g == m.mgid[1]
                   recorded == Recorded(media_groups[c], g, m, t, promised[c])
               IN  IF JobMissing(recorded)
                   THEN /\ media_groups' =
                             [media_groups EXCEPT ![c] =
                                 Put(@, g, [recorded EXCEPT
                                               !.job = Some(t + 1)])]
                        /\ tasks' = tasks \o
                             << me,
                                [Task("flush", c) EXCEPT
                                    !.pc = "sleep", !.mgid = m.mgid,
                                    !.temperature = temperature,
                                    !.armedBy = t] >>
                   ELSE /\ media_groups' =
                             [media_groups EXCEPT ![c] = Put(@, g, recorded)]
                        /\ tasks' = Append(tasks, me)
          ELSE /\ UNCHANGED media_groups
               /\ IF IsVideoSticker(m)
                  THEN tasks' = Append(tasks,
                          [me EXCEPT !.pc = "reply", !.guarded = TRUE,
                                     !.msg = "video_unsupported"])
                  ELSE tasks' = Append(tasks,
                          [me EXCEPT !.pc = "download",
                                     !.mime = MimeOf(kind, m.mime),
                                     !.pending =
                                        IF kind = "image"
                                        THEN <<Last(m.photo)>>
                                        ELSE <<[file_id |-> <<kind>>,
                                                file_size |-> 0]>>])
    /\ UNCHANGED <<chat_temperatures, process>>

\* file.py 10-31: ensure the session, read the temperature, start the
\* download of the document
HandleFile(c, m, created) ==
    /\ Arrive
    /\ created \/ NeedsSession(c)
    /\ (created /\ NeedsSession(c)) => Configured
    /\ failures' = FailedCreate(created)
    /\ promised' = [promised EXCEPT ![c] = None]
    /\ LET t == Len(tasks) + 1 IN
       IF ~created
       THEN /\ tasks' = Append(tasks, [Task("file", c) EXCEPT !.pc = "raised"])
            /\ UNCHANGED <<chat_contexts, history>>
       ELSE /\ IF NeedsSession(c)
               THEN /\ history' = Append(history, NewChat(c, t))
                    /\ chat_contexts' = Put(chat_contexts, c, Len(history) + 1)
               ELSE UNCHANGED <<chat_contexts, history>>
            /\ tasks' = Append(tasks,
                  [Task("file", c) EXCEPT
                      !.temperature = EffectiveTemperature(c),
                      !.caption = m.caption,
                      !.declared = m.mime,
                      !.owed = promised[c],
                      !.pc = "download",
                      !.mime = MimeOf("file", m.mime),
                      !.pending = <<[file_id |-> <<"file">>, file_size |-> 0]>>])
    /\ UNCHANGED <<chat_temperatures, media_groups, process>>

\* video.py 5-9
HandleVideo(c) ==
    /\ Arrive
    /\ tasks' = Append(tasks, [Task("video", c) EXCEPT
                                  !.pc = "reply", !.msg = "video_unsupported"])
    /\ UNCHANGED <<chat_contexts, chat_temperatures, media_groups, history,
                   promised, failures, process>>

\* what a coroutine does when an exception reaches it at its current await:
\* a handler's `except` sends the error message, a flush task has no `except`
OnError(task) ==
    IF task.kind = "flush"
    THEN [task EXCEPT !.pc = "raised", !.resp = <<>>]
    ELSE [task EXCEPT !.pc = "reply", !.msg = "error", !.guarded = FALSE,
                      !.resp = <<>>]

\* after the backend answered: the dispatch loop starts, or there is no part
Answered(task, resp) ==
    [task EXCEPT !.pc = IF resp = <<>> THEN "done" ELSE "dispatch",
                 !.resp = resp, !.response = resp, !.pending = <<>>]

\* image.py 100-116 / 63-81 (audio.py 30-42, ...): one file arrives; after
\* the last one the request is built and sent on the chat's current session
Download(t, outcome, resp) ==
    /\ tasks[t].pc = "download"
    /\ outcome \in {"ok", "download_failed", "backend_failed"}
    /\ LET task == tasks[t]
           c == task.chat
           got == Append(task.got, Head(task.pending))
           rest == Tail(task.pending)
       IN
       CASE outcome = "download_failed" ->
              /\ tasks' = [tasks EXCEPT ![t] = OnError(task)]
              /\ UNCHANGED history
         [] outcome = "ok" /\ rest # <<>> ->
              /\ tasks' = [tasks EXCEPT ![t].got = got, ![t].pending = rest]
              /\ UNCHANGED history
         [] outcome = "ok" /\ rest = <<>> ->
              IF Has(chat_contexts, c)
              THEN /\ history' = SendMessage(chat_contexts[c],
                         UserTurn(t, task.temperature,
                                  RequestParts(task.kind, task.caption,
                                               task.mime, got)))
                   /\ tasks' = [tasks EXCEPT
                                   ![t] = Answered([task EXCEPT !.got = got],
                                                   resp)]
              ELSE \* KeyError
                        /\ tasks' = [tasks EXCEPT ![t] = OnError(task)]
                   /\ UNCHANGED history
         [] outcome = "backend_failed" ->
              /\ rest = <<>>
              /\ tasks' = [tasks EXCEPT ![t] = OnError(task)]
              /\ UNCHANGED history
    /\ failures' = Failed(outcome = "ok")
    /\ UNCHANGED <<chat_contexts, chat_temperatures, media_groups, promised,
                   process>>

\* image.py 50-51: `if not media_group: return`
Absent_Raise(task) == [task EXCEPT !.pc = "raised"]
Absent(task) == [task EXCEPT !.pc = "done"]

\* image.py 47-59: the quiet period is over; pop the group and deduplicate
Flush(t) ==
    /\ tasks[t].kind = "flush" /\ tasks[t].pc = "sleep"
    /\ LET c == tasks[t].chat
           g == tasks[t].mgid[1]
       IN
       IF ~Has(media_groups[c], g)
       THEN /\ tasks' = [tasks EXCEPT ![t] = Absent(tasks[t])]
            /\ UNCHANGED media_groups
       ELSE LET media_group == media_groups[c][g] IN
            /\ media_groups' =
                  [media_groups EXCEPT ![c] = PopBatch(@, g)]
            /\ tasks' = [tasks EXCEPT
                  ![t].pc = "download",
                  ![t].batch = Some(media_group),
                  ![t].caption = media_group.caption,
                  ![t].owed = media_group.owed,
                  ![t].pending =
                      UniqueImages(<<>>, AllPhotos(media_group.photos))]
    /\ UNCHANGED <<chat_contexts, chat_temperatures, history, promised,
                   failures, process>>

\* the loop relays what a part caused after what the earlier parts caused
Relayed_First(out, x) == <<x>> \o out
Relayed(out, x) == Append(out, x)

\* image.py 122-126: `except Exception` around send_photo; the coroutine goes
\* on to send the notice, the loop is not left
PhotoFailed_Abort(task) == OnError(task)
PhotoFailed(task) ==
    [task EXCEPT !.pc = "notice", !.out = Relayed(@, "photo_failed")]

\* audio.py 44-45, 57-62: an exception of send_safe_message is not caught in
\* the loop; it reaches the coroutine at its current await
TextFailed_Skip(task) ==
    [task EXCEPT !.resp = Tail(@),
                 !.pc = IF Tail(task.resp) = <<>> THEN "done" ELSE "dispatch"]
TextFailed(task) == OnError(task)

\* image.py 117-129 / 82-94: the next part of the response is relayed, or
\* the notice for a photo that could not be sent
Dispatch(t, sent) ==
    /\ tasks[t].pc \in {"dispatch", "notice"}
    /\ LET task == tasks[t]
           part == Head(task.resp)
           next == [task EXCEPT
                       !.resp = Tail(@),
                       !.pc = IF Tail(task.resp) = <<>>
                              THEN "done" ELSE "dispatch"]
       IN
       tasks' = [tasks EXCEPT ![t] =
          CASE task.pc = "notice" ->
                 IF sent THEN [next EXCEPT !.out = Relayed(@, "photo_error")]
                 ELSE OnError(task)
            [] task.pc = "dispatch" /\ part = "text" ->
                 IF sent THEN [next EXCEPT !.out = Relayed(@, "text")]
                 ELSE TextFailed(task)
            [] task.pc = "dispatch" /\ part = "blob" ->
                 IF sent THEN [next EXCEPT !.out = Relayed(@, "photo")]
                 ELSE PhotoFailed(task)
            [] OTHER ->
                 IF sent THEN [next EXCEPT !.out = Relayed(@, "unexpected")]
                 ELSE OnError(task)]
    /\ failures' = Failed(sent)
    /\ UNCHANGED <<chat_contexts, chat_temperatures, media_groups, history,
                   promised, process>>

\* handlers/text.py: ensure the session, send the text with the chat's
\* temperature, all inside the handler's try block
HandleText(c, outcome, resp) ==
    /\ Arrive
    /\ outcome \in {"ok", "create_failed", "backend_failed"}
    /\ outcome = "create_failed" => NeedsSession(c)
    /\ (NeedsSession(c) /\ ~Configured) => outcome = "create_failed"
    /\ LET t == Len(tasks) + 1
           temperature == EffectiveTemperature(c)
           me == [Task("text", c) EXCEPT !.temperature = temperature,
                                         !.caption = "text",
                                         !.owed = promised[c]]
           h == IF NeedsSession(c) THEN Len(history) + 1 ELSE chat_contexts[c]
           primed == IF NeedsSession(c)
                     THEN Append(history, NewChat(c, t)) ELSE history
       IN
       IF outcome = "create_failed"
       THEN /\ tasks' = Append(tasks, OnError(me))
            /\ UNCHANGED <<chat_contexts, history>>
       ELSE /\ chat_contexts' = Put(chat_contexts, c, h)
            /\ IF outcome = "backend_failed"
               THEN /\ history' = primed
                    /\ tasks' = Append(tasks, OnError(me))
               ELSE /\ history' =
                         [primed EXCEPT ![h].turns = Append(@,
                             UserTurn(t, temperature, <<TextPart("text")>>))]
                    /\ tasks' = Append(tasks, Answered(me, resp))
    /\ promised' = [promised EXCEPT ![c] = None]
    /\ failures' =
          Failed(outcome = "ok" \/ (outcome = "create_failed" /\ ~Configured))
    /\ UNCHANGED <<chat_temperatures, media_groups, process>>

(* ------------------------------- Next ---------------------------------- *)
Tasks == DOMAIN tasks

CallOutcomes ==
    IF failures < MaxFail
    THEN {"ok", "download_failed", "backend_failed", "create_failed"}
    ELSE {"ok"}

\* the steps every specification shares: suspended coroutines resume
Resume(responses) ==
    \/ \E t \in Tasks, sent \in Outcomes : Reply(t, sent)
    \/ \E t \in Tasks, outcome \in CallOutcomes, resp \in responses :
          Download(t, outcome, resp)
    \/ \E t \in Tasks : Flush(t)
    \/ \E t \in Tasks, sent \in Outcomes : Dispatch(t, sent)

(* Spec: the session store under every kind of update.  Chat c1 receives   *)
(* every kind, chat c2 /start, /clear and audio files.                     *)
SessionResponses == { <<"text">> }
SessionKinds(c) == IF c = "c1" THEN MediaKinds ELSE {"audio"}
SessionMessages ==
    { Message("", None, <<>>, "", FALSE),
      Message("", None, <<PhotoSize(<<"B">>, "s", 2)>>, "", FALSE),
      Message("", Some("g1"), <<PhotoSize(<<"B">>, "s", 2)>>, "", FALSE) }

Next ==
    \/ \E c \in Chats : Start(c)
    \/ \E t \in Tasks, sent \in Outcomes, created \in CreateOutcomes :
          StartResume(t, sent, created)
    \/ \E c \in Chats, created \in CreateOutcomes : Clear(c, created)
    \/ \E c \in Chats, m \in SessionMessages, created \in CreateOutcomes :
          \E kind \in SessionKinds(c) :
             /\ (kind = "image") = (m.photo # <<>>)
             /\ HandleMedia(c, kind, m, created)
    \/ \E outcome \in CallOutcomes, resp \in SessionResponses :
          HandleText("c1", outcome, resp)
    \/ Resume(SessionResponses)

Spec == Init /\ [][Next]_vars

(* SpecTemp: /settemp between /start and /clear.  Chat c1 sends every      *)
(* argument list, chat c2 one of each kind of answer.                      *)
TempArgs(c) ==
    IF c = "c1" THEN ArgLists ELSE { <<>>, <<"abc">>, <<"2.0">>, <<"3.0">> }

NextTemp ==
    \/ \E c \in Chats : Start(c)
    \/ \E t \in Tasks, sent \in Outcomes, created \in CreateOutcomes :
          StartResume(t, sent, created)
    \/ \E c \in Chats, created \in CreateOutcomes : Clear(c, created)
    \/ \E c \in Chats : \E args \in TempArgs(c) : SetTemperature(c, args)
    \/ \E t \in Tasks, sent \in Outcomes : Reply(t, sent)

SpecTemp == Init /\ [][NextTemp]_vars

(* SpecPromise: one chat; an accepted /settemp among /start, /clear and    *)
(* the media handlers.                                                     *)
PromiseResponses == { <<>>, <<"text">> }
PromiseMessages ==
    { Message("", None, <<>>, "", FALSE),
      Message("", None, <<PhotoSize(<<"B">>, "s", 2)>>, "", FALSE),
      Message("", Some("g1"), <<PhotoSize(<<"B">>, "s", 2)>>, "", FALSE) }

NextPromise ==
    \/ Start("c1")
    \/ \E t \in Tasks, sent \in Outcomes, created \in CreateOutcomes :
          StartResume(t, sent, created)
    \/ \E created \in CreateOutcomes : Clear("c1", created)
    \/ SetTemperature("c1", <<"1.5">>)
    \/ \E kind \in {"image", "audio"}, m \in PromiseMessages,
          created \in CreateOutcomes :
          /\ (kind = "image") = (m.photo # <<>>)
          /\ HandleMedia("c1", kind, m, created)
    \/ Resume(PromiseResponses)

SpecPromise == Init /\ [][NextPromise]_vars

(* SpecBatch: photos of one chat, in a media group and alone.              *)
BatchResponses == { <<"text">> }
BatchMessages ==
    { Message("", Some("g1"), photo, "", FALSE) : photo \in PhotoLists }
    \cup { Message("", None, <<PhotoSize(<<"B">>, "s", 2)>>, "", FALSE) }

NextBatch ==
    \/ \E m \in BatchMessages, created \in CreateOutcomes :
          HandleMedia("c1", "image", m, created)
    \/ Resume(BatchResponses)

SpecBatch == Init /\ [][NextBatch]_vars

(* SpecCaption: the items of one media group, with and without captions.   *)
CaptionResponses == { <<>> }
CaptionMessages ==
    { Message(caption, Some("g1"), <<PhotoSize(<<"B">>, "s", 2)>>, "", FALSE) :
        caption \in {"", "cap", "cap2"} }

NextCaption ==
    \/ \E m \in CaptionMessages, created \in CreateOutcomes :
          HandleMedia("c1", "image", m, created)
    \/ \E t \in Tasks, outcome \in CallOutcomes, resp \in CaptionResponses :
          Download(t, outcome, resp)
    \/ \E t \in Tasks : Flush(t)

SpecCaption == Init /\ [][NextCaption]_vars

(* SpecBuild: the requests built for every kind of media message.          *)
BuildResponses == { <<>> }
BuildPhoto == <<PhotoSize(<<"A">>, "s", 1), PhotoSize(<<"A">>, "l", 2)>>
BuildMessages(kind) ==
    CASE kind = "image" ->
            { Message(caption, mg, BuildPhoto, "", FALSE) :
                caption \in Captions, mg \in {None, Some("g1")} }
      [] kind = "audio" -> { Message("cap", None, <<>>, "", FALSE) }
      [] OTHER          -> { Message("", None, <<>>, "", FALSE) }

NextBuild ==
    \/ \E kind \in MediaKinds, created \in CreateOutcomes :
          \E m \in BuildMessages(kind) : HandleMedia("c1", kind, m, created)
    \/ \E caption \in Captions, created \in CreateOutcomes :
          HandleFile("c1", Message(caption, None, <<>>, "", FALSE), created)
    \/ \E t \in Tasks, sent \in Outcomes : Reply(t, sent)
    \/ \E t \in Tasks, outcome \in CallOutcomes, resp \in BuildResponses :
          Download(t, outcome, resp)
    \/ \E t \in Tasks : Flush(t)

SpecBuild == Init /\ [][NextBuild]_vars

(* SpecDispatch: the responses of the backend relayed by a handler and by  *)
(* a flush task.                                                           *)
DispatchResponses == { <<"text", "blob", "other">> }
DispatchMessages ==
    { Message("", None, <<>>, "", FALSE),
      Message("", Some("g1"), <<PhotoSize(<<"B">>, "s", 2)>>, "", FALSE) }

NextDispatch ==
    \/ \E m \in DispatchMessages, created \in CreateOutcomes :
          HandleMedia("c1", IF m.photo = <<>> THEN "audio" ELSE "image",
                      m, created)
    \/ Resume(DispatchResponses)

SpecDispatch == Init /\ [][NextDispatch]_vars

(* SpecStartup: the process from its start, with or without each of its    *)
(* two credentials; then /start and audio files of one chat.               *)
StartupResponses == { <<"text">> }

\* config.py 4-5: the environment the process is started in
InitBoot ==
    /\ chat_contexts = EmptyDict
    /\ chat_temperatures = EmptyDict
    /\ media_groups = [c \in Chats |-> EmptyDict]
    /\ tasks = <<>>
    /\ history = <<>>
    /\ promised = [c \in Chats |-> None]
    /\ failures = 0
    /\ process \in [TELEGRAM_BOT_TOKEN : BOOLEAN, GEMINI_API_KEY : BOOLEAN,
                     state : {"boot"}, concurrent_updates : {MaxInFlight}]

\* main.py 19-44: without the Telegram token main raises and the process
\* logs 'Bot failed to start'; otherwise the handlers are registered and
\* polling begins
Main ==
    /\ process.state = "boot"
    /\ process' = [process EXCEPT !.state =
                      IF process.TELEGRAM_BOT_TOKEN THEN "serving"
                      ELSE "failed"]
    /\ UNCHANGED <<chat_contexts, chat_temperatures, media_groups, tasks,
                   history, promised, failures>>

NextStartup ==
    \/ Main
    \/ Start("c1")
    \/ \E t \in Tasks, sent \in Outcomes, created \in CreateOutcomes :
          StartResume(t, sent, created)
    \/ \E created \in CreateOutcomes :
          HandleMedia("c1", "audio", Message("", None, <<>>, "", FALSE),
                      created)
    \/ \E t \in Tasks, sent \in Outcomes : Reply(t, sent)
    \/ \E t \in Tasks, outcome \in CallOutcomes,
          resp \in StartupResponses : Download(t, outcome, resp)
    \/ \E t \in Tasks, sent \in Outcomes : Dispatch(t, sent)

SpecStartup == InitBoot /\ [][NextStartup]_vars

(* SpecOverlap: one chat whose handlers overlap, as they do when the       *)
(* Application is built with concurrent_updates: /start and audio files.  *)
OverlapResponses == { <<"text">> }

InitOverlap ==
    /\ chat_contexts = EmptyDict
    /\ chat_temperatures = EmptyDict
    /\ media_groups = [c \in Chats |-> EmptyDict]
    /\ tasks = <<>>
    /\ history = <<>>
    /\ promised = [c \in Chats |-> None]
    /\ failures = 0
    /\ process = [TELEGRAM_BOT_TOKEN |-> TRUE, GEMINI_API_KEY |-> TRUE,
                  state |-> "serving", concurrent_updates |-> MaxOverlap]

NextOverlap ==
    \/ Start("c1")
    \/ \E t \in Tasks, sent \in Outcomes, created \in CreateOutcomes :
          StartResume(t, sent, created)
    \/ \E created \in CreateOutcomes :
          HandleMedia("c1", "audio", Message("", None, <<>>, "", FALSE),
                      created)
    \/ \E t \in Tasks, sent \in Outcomes : Reply(t, sent)
    \/ \E t \in Tasks, outcome \in CallOutcomes,
          resp \in OverlapResponses : Download(t, outcome, resp)
    \/ \E t \in Tasks, sent \in Outcomes : Dispatch(t, sent)

SpecOverlap == InitOverlap /\ [][NextOverlap]_vars

(* SpecLive: photos of two media groups of one chat; every flush task whose *)
(* quiet period is over is resumed by the event loop.                      *)
LiveResponses == { <<>> }
LiveMessages ==
    { Message("", Some(g), <<PhotoSize(<<"B">>, "s", 2)>>, "", FALSE) :
         g \in GroupIds }

\* image.py 48: asyncio.sleep(1) returns and the event loop resumes the task
Wake == \E t \in Tasks : Flush(t)

NextLive ==
    \/ \E m \in LiveMessages, created \in CreateOutcomes :
          HandleMedia("c1", "image", m, created)
    \/ Wake
    \/ \E t \in Tasks, outcome \in CallOutcomes, resp \in LiveResponses :
          Download(t, outcome, resp)

SpecLive == Init /\ [][NextLive]_vars /\ WF_vars(Wake)

(* SpecSpurious: process_media_group entered for a batch id that may have  *)
(* no batch: the run starts with a flush timer armed for batch g1 of chat  *)
(* c1 and no batch; then photos of two media groups of the chat.           *)
InitSpurious ==
    /\ chat_contexts = EmptyDict
    /\ chat_temperatures = EmptyDict
    /\ media_groups = [c \in Chats |-> EmptyDict]
    /\ tasks = << [Task("flush", "c1") EXCEPT
                      !.pc = "sleep", !.mgid = Some("g1")] >>
    /\ history = <<>>
    /\ promised = [c \in Chats |-> None]
    /\ failures = 0
    /\ process = [TELEGRAM_BOT_TOKEN |-> TRUE, GEMINI_API_KEY |-> TRUE,
                  state |-> "serving", concurrent_updates |-> MaxInFlight]

SpecSpurious == InitSpurious /\ [][NextLive]_vars

(* SpecMime: files of every kind, with and without a declared mime type.   *)
MimeResponses == { <<>> }
\* audio.mime_type, voice.mime_type, document.mime_type: absent or declared
Mimes == {"", "audio/wav"}
MimeMessages(kind) ==
    CASE kind = "image" ->
            { Message("", mg, <<PhotoSize(<<"B">>, "s", 2)>>, "", FALSE) :
                mg \in {None, Some("g1")} }
      [] kind = "sticker" -> { Message("", None, <<>>, "", FALSE) }
      [] OTHER -> { Message("", None, <<>>, mime, FALSE) : mime \in Mimes }

NextMime ==
    \/ \E kind \in MediaKinds, created \in CreateOutcomes :
          \E m \in MimeMessages(kind) : HandleMedia("c1", kind, m, created)
    \/ \E m \in MimeMessages("file"), created \in CreateOutcomes :
          HandleFile("c1", m, created)
    \/ \E t \in Tasks, sent \in Outcomes : Reply(t, sent)
    \/ \E t \in Tasks, outcome \in CallOutcomes, resp \in MimeResponses :
          Download(t, outcome, resp)
    \/ \E t \in Tasks : Flush(t)

SpecMime == Init /\ [][NextMime]_vars

(* SpecRange: /settemp with values in and out of range, /clear, audio      *)
(* files and photos of a media group for chat c1; /settemp for chat c2.    *)
RangeResponses == { <<>> }
RangeArgs(c) ==
    IF c = "c1"
    THEN { <<"0.0">>, <<"2.0">>, <<"3.0">>, <<"-0.1">>, <<"nan">> }
    ELSE { <<"1.5">> }
RangeMessages ==
    { Message("", None, <<>>, "", FALSE),
      Message("", Some("g1"), <<PhotoSize(<<"B">>, "s", 2)>>, "", FALSE) }

NextRange ==
    \/ \E c \in Chats : \E args \in RangeArgs(c) : SetTemperature(c, args)
    \/ \E created \in CreateOutcomes : Clear("c1", created)
    \/ \E m \in RangeMessages, created \in CreateOutcomes :
          HandleMedia("c1", IF m.photo = <<>> THEN "audio" ELSE "image",
                      m, created)
    \/ \E t \in Tasks, sent \in Outcomes : Reply(t, sent)
    \/ \E t \in Tasks, outcome \in CallOutcomes, resp \in RangeResponses :
          Download(t, outcome, resp)
    \/ \E t \in Tasks : Flush(t)

SpecRange == Init /\ [][NextRange]_vars

(* SpecVideo: videos for both chats; stickers, still and animated, and     *)
(* /settemp for chat c1.                                                   *)
VideoResponses == { <<>> }
VideoMessages == { Message("", None, <<>>, "", a) : a \in BOOLEAN }

NextVideo ==
    \/ \E c \in Chats : HandleVideo(c)
    \/ \E m \in VideoMessages, created \in CreateOutcomes :
          HandleMedia("c1", "sticker", m, created)
    \/ SetTemperature("c1", <<"1.5">>)
    \/ \E t \in Tasks, sent \in Outcomes : Reply(t, sent)
    \/ \E t \in Tasks, outcome \in CallOutcomes, resp \in VideoResponses :
          Download(t, outcome, resp)

SpecVideo == Init /\ [][NextVideo]_vars

(* SpecRelay: audio files of one chat, answered with a text after a photo  *)
(* or with two texts.                                                      *)
RelayResponses == { <<"blob", "text", "other">>, <<"text", "text">> }

NextRelay ==
    \/ \E created \in CreateOutcomes :
          HandleMedia("c1", "audio", Message("", None, <<>>, "", FALSE),
                      created)
    \/ \E t \in Tasks, sent \in Outcomes : Reply(t, sent)
    \/ \E t \in Tasks, outcome \in CallOutcomes, resp \in RelayResponses :
          Download(t, outcome, resp)
    \/ \E t \in Tasks, sent \in Outcomes : Dispatch(t, sent)

SpecRelay == Init /\ [][NextRelay]_vars

(* SpecFrame: two chats; chat c1 receives photos of two media groups,      *)
(* chat c2 /settemp, /clear and photos of one media group.                 *)
FrameResponses == { <<"text">> }
FrameMessages ==
    { Message("", Some(g), <<PhotoSize(<<"B">>, "s", 2)>>, "", FALSE) :
         g \in GroupIds }

NextFrame ==
    \/ SetTemperature("c2", <<"1.5">>)
    \/ \E created \in CreateOutcomes : Clear("c2", created)
    \/ \E c \in Chats, m \in FrameMessages, created \in CreateOutcomes :
          /\ c = "c2" => m.mgid = Some("g1")
          /\ HandleMedia(c, "image", m, created)
    \/ Resume(FrameResponses)

SpecFrame == Init /\ [][NextFrame]_vars

(* ====================== properties: C1 .. C10 ========================== *)
HandlesOf(c) == {h \in DOMAIN history : history[h].chat = c}
Max(S) == CHOOSE x \in S : \A y \in S : y <= x
Min(S) == CHOOSE x \in S : \A y \in S : x <= y
TasksOf(c) == {t \in Tasks : tasks[t].chat = c}

\* the user turns a task has sent, as <<handle, index>>
TurnsBy(t) ==
    {x \in UNION {{<<h, i>> : i \in DOMAIN history[h].turns} :
                     h \in DOMAIN history} :
        /\ history[x[1]].turns[x[2]].by = t
        /\ history[x[1]].turns[x[2]].role = "user"}
TurnOf(x) == history[x[1]].turns[x[2]]
\* the files in the blob parts of a turn
Blobs(turn) ==
    {turn.parts[i].data[1] :
        i \in {j \in DOMAIN turn.parts : turn.parts[j].kind = "blob"}}
BlobCount(turn) ==
    Cardinality({j \in DOMAIN turn.parts : turn.parts[j].kind = "blob"})

\* C1: for every chat, whatever updates arrive, the stored session handle is
\* the latest one created for the chat and every handle but the chat's first
\* was created by a /clear: as long as no /clear intervenes the handle of the
\* first use stays, no handler creates a second one.
C1_SessionKept ==
    \A c \in Chats :
       /\ Has(chat_contexts, c) <=> HandlesOf(c) # {}
       /\ HandlesOf(c) # {} =>
             /\ chat_contexts[c] = Max(HandlesOf(c))
             /\ \A h \in HandlesOf(c) :
                   h # Min(HandlesOf(c)) => tasks[history[h].by].kind = "clear"

\* C1 witness: three updates of different kinds were handled for one chat,
\* none a /clear, two of them sent a request, and the chat has one handle.
C1_Witness ==
    \E c \in Chats :
       /\ Cardinality(HandlesOf(c)) = 1
       /\ Cardinality({tasks[t].kind : t \in TasksOf(c)} \ {"flush"}) = 3
       /\ \A t \in TasksOf(c) : tasks[t].kind # "clear" /\ tasks[t].pc = "done"
       /\ Len(history[chat_contexts[c]].turns) = 3

\* C2 as claimed: once a /clear has completed (in a run where no call has
\* failed), a session handle created by that very command exists for the
\* chat and a session is stored, whether or not the chat had one before.
C2_ClearAlwaysReplaces ==
    \A t \in Tasks :
       failures = 0 /\ tasks[t].kind = "clear" /\ tasks[t].pc = "done" =>
          /\ Has(chat_contexts, tasks[t].chat)
          /\ \E h \in HandlesOf(tasks[t].chat) : history[h].by = t

\* C2 as amended: a /clear that does not fail replaces the session of a chat
\* that had one when the command ran (the stored handle is then the one the
\* command created, or a later one), and creates no session for a chat that
\* had none.
C2_ClearReplacesExisting ==
    \A t \in Tasks :
       tasks[t].kind = "clear" /\ tasks[t].pc \in {"reply", "done"} =>
          LET c == tasks[t].chat
              mine == {h \in HandlesOf(c) : history[h].by = t}
          IN  IF tasks[t].before # None
              THEN /\ Cardinality(mine) = 1
                   /\ \A h \in mine : /\ h > tasks[t].before[1]
                                      /\ Has(chat_contexts, c)
                                      /\ chat_contexts[c] >= h
              ELSE mine = {}

\* C2 witness: a completed /clear on a chat that had a session, whose new
\* handle is the stored one.
C2_Witness ==
    \E t \in Tasks :
       /\ tasks[t].kind = "clear" /\ tasks[t].pc = "done"
       /\ tasks[t].before # None
       /\ history[chat_contexts[tasks[t].chat]].by = t

\* no handler has started after task t
LatestHandler(t) ==
    \A u \in Tasks : u > t => tasks[u].kind = "flush"

\* C3 as claimed: when a /clear has completed, no call has failed and no
\* later update has been handled, no temperature is stored for its chat.
C3_ClearResetsTemperature ==
    \A t \in Tasks :
       /\ failures = 0
       /\ tasks[t].kind = "clear" /\ tasks[t].pc = "done"
       /\ LatestHandler(t)
       => ~Has(chat_temperatures, tasks[t].chat)

\* C4 as claimed: a request sent for a message that /settemp v promised its
\* value to (the first message of the chat after the confirmed /settemp, or
\* the media group that message went into) carries temperature v, in a run
\* where no call has failed.  Stated over the handlers of src/handlers:
\* photo, sticker, audio, voice and the flush of a media group.
C4_NextRequestCarriesSetTemp ==
    \A t \in Tasks :
       /\ failures = 0
       /\ tasks[t].kind \in MediaKinds \cup {"flush"} /\ tasks[t].owed # None
       =>
          \A x \in TurnsBy(t) : TurnOf(x).temperature = tasks[t].owed

(* C5, C6: what the claims call an acceptable argument list, and its value *)
Acceptable(args) == Len(args) = 1 /\ args[1] \in {"0.0", "1.5", "2.0"}
Tenths(s) == CASE s = "0.0" -> 0 [] s = "1.5" -> 15 [] s = "2.0" -> 20

\* this step is the start of a /settemp handler
SetTempStep ==
    /\ Len(tasks') = Len(tasks) + 1
    /\ tasks'[Len(tasks')].kind = "settemp"

\* C5: a /settemp whose argument list has not exactly one element, is no
\* number or is outside [0.0, 2.0] leaves every chat's stored temperature
\* as it was and answers with the usage or a validation message; when the
\* answer has been sent it is the only thing the handler sent.
C5_RejectedSetTempKeepsState ==
    /\ [][SetTempStep /\ ~Acceptable(tasks'[Len(tasks')].args) =>
             /\ chat_temperatures' = chat_temperatures
             /\ tasks'[Len(tasks')].pc = "reply"
             /\ tasks'[Len(tasks')].msg =
                   LET args == tasks'[Len(tasks')].args IN
                   IF Len(args) # 1 THEN "usage"
                   ELSE IF args[1] = "abc" THEN "invalid" ELSE "range"]_vars
    /\ [](\A t \in Tasks :
             /\ tasks[t].kind = "settemp" /\ tasks[t].pc = "done"
             /\ ~Acceptable(tasks[t].args)
             => tasks[t].out \in {<<"usage">>, <<"invalid">>, <<"range">>})

\* C5 witness: 1.5 was stored for a chat, a later /settemp of the same chat
\* with a bad argument was answered, and 1.5 is still stored.
C5_Witness ==
    \E t \in Tasks, u \in Tasks :
       /\ t < u /\ tasks[t].chat = tasks[u].chat
       /\ tasks[t].kind = "settemp" /\ tasks[t].args = <<"1.5">>
       /\ tasks[u].kind = "settemp" /\ tasks[u].pc = "done"
       /\ tasks[u].args \in {<<"abc">>, <<"3.0">>, <<"-0.1">>}
       /\ LatestHandler(u)
       /\ chat_temperatures = [c \in {tasks[t].chat} |-> 15]

\* C6: a /settemp with exactly one numeric argument v in [0.0, 2.0], bounds
\* included, stores v for its chat, replacing what was stored, changes no
\* other chat's temperature and answers that the temperature is set.
C6_AcceptedSetTempStores ==
    [][SetTempStep /\ Acceptable(tasks'[Len(tasks')].args) =>
          /\ chat_temperatures' =
                Put(chat_temperatures, tasks'[Len(tasks')].chat,
                    Tenths(tasks'[Len(tasks')].args[1]))
          /\ tasks'[Len(tasks')].msg = "tempset"]_vars

\* C6 witness: a chat's stored 1.5 was replaced by the boundary value 0.0,
\* and another /settemp stored the boundary value 2.0.
C6_Witness ==
    \E t \in Tasks, u \in Tasks, w \in Tasks :
       /\ t < u /\ tasks[t].chat = tasks[u].chat
       /\ tasks[t].kind = "settemp" /\ tasks[t].args = <<"1.5">>
       /\ tasks[u].kind = "settemp" /\ tasks[u].args = <<"0.0">>
       /\ tasks[w].kind = "settemp" /\ tasks[w].args = <<"2.0">>
       /\ tasks[w].chat # tasks[u].chat
       /\ chat_temperatures[tasks[u].chat] = 0
       /\ chat_temperatures[tasks[w].chat] = 20

(* C7 .. C10: media groups *)
FlushTasks == {t \in Tasks : tasks[t].kind = "flush"}
\* the flush tasks of a media group whose quiet period has not ended
Sleeping(c, g) ==
    {t \in FlushTasks : /\ tasks[t].chat = c /\ tasks[t].mgid = Some(g)
                        /\ tasks[t].pc = "sleep"}
\* the handler invocations that recorded a message in a media group
GroupHandlers ==
    {t \in Tasks : /\ tasks[t].kind = "image" /\ tasks[t].mgid # None
                   /\ tasks[t].pc # "raised"}
\* the photo sizes of all messages of a media group, and their dedup keys
PhotosIn(media_group) ==
    UNION {{media_group.photos[i][j] : j \in DOMAIN media_group.photos[i]} :
              i \in DOMAIN media_group.photos}
KeysIn(media_group) == {Key(p.file_id) : p \in PhotosIn(media_group)}
\* a flush task that popped a group and got its request answered
Flushed(t) ==
    /\ t \in FlushTasks /\ tasks[t].batch # None
    /\ tasks[t].pc \in {"dispatch", "done"}

\* C7: for every chat and batch id at most one flush task is waiting for the
\* quiet period to end; a live batch has such a task, it is the one the
\* handler of the batch's first item created, and the handlers of the later
\* items created none (one more item, no new task, no new timer).
C7_OneFlushTaskPerBatch ==
    \A c \in Chats, g \in GroupIds :
       /\ Cardinality(Sleeping(c, g)) <= 1
       /\ Has(media_groups[c], g) =>
             LET media_group == media_groups[c][g] IN
             /\ media_group.job # None
             /\ Sleeping(c, g) = {media_group.job[1]}
             /\ Len(media_group.photos) = Len(media_group.from)
             /\ tasks[media_group.job[1]].armedBy = media_group.from[1]
             /\ \A i \in 2..Len(media_group.from) :
                   \A t \in FlushTasks :
                      tasks[t].armedBy # media_group.from[i]

\* C7 witness: a live batch holds three items and its one flush task waits.
C7_Witness ==
    \E c \in Chats, g \in GroupIds :
       /\ Has(media_groups[c], g)
       /\ Len(media_groups[c][g].photos) = 3
       /\ Cardinality(Sleeping(c, g)) = 1

\* C8: the handler of an item of a media group sends no user request; a
\* flush task sends at most one, none when it found no batch, and when its
\* request was answered exactly one, whose blobs are photo sizes of the
\* batch, one for every dedup key occurring in the batch.
C8_OneRequestPerBatch ==
    /\ \A t \in GroupHandlers : TurnsBy(t) = {}
    /\ \A t \in FlushTasks :
          /\ Cardinality(TurnsBy(t)) <= 1
          /\ tasks[t].batch = None => TurnsBy(t) = {}
          /\ Flushed(t) =>
                /\ Cardinality(TurnsBy(t)) = 1
                /\ \A x \in TurnsBy(t) :
                      /\ Blobs(TurnOf(x)) \subseteq PhotosIn(tasks[t].batch[1])
                      /\ {Key(p.file_id) : p \in Blobs(TurnOf(x))} =
                            KeysIn(tasks[t].batch[1])
                      /\ BlobCount(TurnOf(x)) =
                            Cardinality(KeysIn(tasks[t].batch[1]))

\* C8 witness: three items arrived for one batch, one flush task finished
\* for them and its single request holds two pictures.
C8_Witness ==
    \E t \in FlushTasks :
       /\ tasks[t].pc = "done" /\ tasks[t].batch # None
       /\ Len(tasks[t].batch[1].from) = 3
       /\ \E x \in TurnsBy(t) : BlobCount(TurnOf(x)) = 2

\* the flush tasks that hold (popped) the batch handler t recorded its item in
Holders(t) ==
    {f \in FlushTasks :
        /\ tasks[f].batch # None
        /\ \E i \in DOMAIN tasks[f].batch[1].from :
              tasks[f].batch[1].from[i] = t}
\* the live batches handler t's item is in
LiveWith(t) ==
    {g \in DOMAIN media_groups[tasks[t].chat] :
        \E i \in DOMAIN media_groups[tasks[t].chat][g].from :
           media_groups[tasks[t].chat][g].from[i] = t}

\* C9: an item is at any time in exactly one batch, a live one or a popped
\* one: an item that arrives after the flush of its batch id has popped the
\* batch is in a new batch; the flush task of that batch is another task
\* than the one that popped, created by the first item of the new batch;
\* and when the flush of an item's batch got its request answered, the
\* request holds a photo size of that item's picture at least as large as
\* the item's.
C9_LateItemStartsNewBatch ==
    /\ \A t \in GroupHandlers :
          /\ Cardinality(Holders(t)) + Cardinality(LiveWith(t)) = 1
          /\ \A f \in Holders(t) :
                Flushed(f) =>
                   \E i \in DOMAIN tasks[f].batch[1].from :
                      /\ tasks[f].batch[1].from[i] = t
                      /\ \A j \in DOMAIN tasks[f].batch[1].photos[i] :
                            \E x \in TurnsBy(f) :
                               \E q \in Blobs(TurnOf(x)) :
                                  LET p == tasks[f].batch[1].photos[i][j] IN
                                  /\ Key(q.file_id) = Key(p.file_id)
                                  /\ q.file_size >= p.file_size
    /\ \A c \in Chats, g \in GroupIds :
          Has(media_groups[c], g) =>
             LET media_group == media_groups[c][g] IN
             /\ media_group.job # None
             /\ tasks[media_group.job[1]].pc = "sleep"
             /\ tasks[media_group.job[1]].batch = None
             /\ tasks[media_group.job[1]].armedBy = media_group.from[1]
             /\ \A f \in FlushTasks :
                   tasks[f].batch # None => f < media_group.from[1]

\* C9 witness: while a flush that popped its batch is still downloading, an
\* item with the same batch id has arrived and is in a live batch of its own.
C9_Witness ==
    \E f \in FlushTasks :
       /\ tasks[f].pc = "download" /\ tasks[f].batch # None
       /\ Has(media_groups[tasks[f].chat], tasks[f].mgid[1])
       /\ media_groups[tasks[f].chat][tasks[f].mgid[1]].job # Some(f)

\* C10: in the request of a flush, every dedup key of the batch has exactly
\* one photo size, and that one has the largest declared size among the
\* batch's photo sizes with the key.
C10_LargestPerKey ==
    \A t \in FlushTasks :
       \A x \in TurnsBy(t) :
          /\ BlobCount(TurnOf(x)) = Cardinality(Blobs(TurnOf(x)))
          /\ \A p \in PhotosIn(tasks[t].batch[1]) :
                LET same == {q \in Blobs(TurnOf(x)) :
                                Key(q.file_id) = Key(p.file_id)}
                IN  /\ Cardinality(same) = 1
                    /\ \A q \in same : q.file_size >= p.file_size
                    /\ same \subseteq PhotosIn(tasks[t].batch[1])

\* C10 witness: a flush sent a request for a batch in which one key occurs
\* with two declared sizes and another key with two equal sizes.
C10_Witness ==
    \E t \in FlushTasks :
       /\ TurnsBy(t) # {}
       /\ \E p, q \in PhotosIn(tasks[t].batch[1]) :
             /\ Key(p.file_id) = Key(q.file_id)
             /\ p.file_size < q.file_size
       /\ \E p, q \in PhotosIn(tasks[t].batch[1]) :
             /\ Key(p.file_id) = Key(q.file_id)
             /\ p # q /\ p.file_size = q.file_size

(* ====================== properties: C11 .. C20 ========================= *)
\* the caption of the last item, in order of arrival, that carried one
LastCaption(from) ==
    LET with == {i \in DOMAIN from : tasks[from[i]].caption # ""}
    IN  IF with = {} THEN "" ELSE tasks[from[Max(with)]].caption

\* C11: the caption recorded in a live batch, and the text part of the
\* request a flush sends for its batch, is the caption of the last arrived
\* item of the batch that carried a non-empty caption, and the empty string
\* when no item carried one.
C11_LastCaptionWins ==
    /\ \A c \in Chats, g \in GroupIds :
          Has(media_groups[c], g) =>
             media_groups[c][g].caption = LastCaption(media_groups[c][g].from)
    /\ \A t \in FlushTasks :
          \A x \in TurnsBy(t) :
             TurnOf(x).parts[1] = TextPart(LastCaption(tasks[t].batch[1].from))

\* C11 witness: a flush sent the caption of the second of three items, the
\* third having none and the first another one.
C11_Witness ==
    \E t \in FlushTasks :
       /\ tasks[t].batch # None
       /\ Len(tasks[t].batch[1].from) = 3
       /\ tasks[tasks[t].batch[1].from[1]].caption = "cap"
       /\ tasks[tasks[t].batch[1].from[2]].caption = "cap2"
       /\ tasks[tasks[t].batch[1].from[3]].caption = ""
       /\ \E x \in TurnsBy(t) : TurnOf(x).parts[1].text = "cap2"

\* the request kinds C12 names
BuilderKinds == MediaKinds \cup {"flush", "file"}
\* parts is a text part with the caption followed by one blob part per file
TextThenBlobs(parts, caption, files) ==
    /\ Len(parts) = 1 + Len(files)
    /\ parts[1] = TextPart(caption)
    /\ \A i \in DOMAIN files :
          parts[i + 1].kind = "blob" /\ parts[i + 1].data = Some(files[i])

\* C12 as claimed: every user request of a photo, media group, sticker,
\* audio, voice or document handler begins with a text part holding the
\* caption (empty when there is none), followed by one blob part per file
\* (in a run where no call has failed).
C12_AlwaysLeadingText ==
    \A t \in Tasks :
       failures = 0 /\ tasks[t].kind \in BuilderKinds =>
          \A x \in TurnsBy(t) :
             /\ tasks[t].got # <<>>
             /\ TextThenBlobs(TurnOf(x).parts, tasks[t].caption, tasks[t].got)

\* C12 as amended: the requests for photos, media groups, stickers, audio
\* and voice begin with a text part holding the caption, empty when there is
\* none, followed by one blob part per file; the request for a document does
\* so when the document has a caption and is the blob part alone when it has
\* none.
C12_LeadingTextExceptBareDocument ==
    \A t \in Tasks :
       tasks[t].kind \in BuilderKinds =>
          \A x \in TurnsBy(t) :
             /\ tasks[t].got # <<>>
             /\ IF tasks[t].kind = "file" /\ tasks[t].caption = ""
                THEN /\ Len(TurnOf(x).parts) = 1
                     /\ TurnOf(x).parts[1].kind = "blob"
                     /\ TurnOf(x).parts[1].data = Some(tasks[t].got[1])
                ELSE TextThenBlobs(TurnOf(x).parts, tasks[t].caption,
                                   tasks[t].got)

\* C12 witness: a photo without caption was sent as an empty text part and
\* a blob, and a document with a caption as its caption and a blob.
C12_Witness ==
    \E t \in Tasks, u \in Tasks :
       /\ tasks[t].kind = "image" /\ tasks[t].caption = ""
       /\ \E x \in TurnsBy(t) :
             /\ Len(TurnOf(x).parts) = 2
             /\ TurnOf(x).parts[1] = TextPart("")
       /\ tasks[u].kind = "file" /\ tasks[u].caption = "cap"
       /\ \E x \in TurnsBy(u) : TurnOf(x).parts[1] = TextPart("cap")

(* C13, C14: the response dispatcher *)
\* the tasks that got a response with parts
Answerers == {t \in Tasks : tasks[t].response # <<>>}
\* the parts of its response a task has dealt with
Consumed(t) ==
    SubSeq(tasks[t].response, 1, Len(tasks[t].response) - Len(tasks[t].resp))
\* out is, part by part and in the order of the parts, what the parts
\* caused: a text message, a photo (or the failed send and its notice), the
\* notice of an unexpected part
RECURSIVE CausedBy(_, _)
CausedBy(out, parts) ==
    IF parts = <<>> THEN out = <<>>
    ELSE /\ out # <<>>
         /\ CASE Head(parts) = "text" ->
                   /\ Head(out) = "text"
                   /\ CausedBy(Tail(out), Tail(parts))
              [] Head(parts) = "blob" ->
                   \/ /\ Head(out) = "photo"
                      /\ CausedBy(Tail(out), Tail(parts))
                   \/ /\ Len(out) >= 2
                      /\ out[1] = "photo_failed" /\ out[2] = "photo_error"
                      /\ CausedBy(SubSeq(out, 3, Len(out)), Tail(parts))
              [] OTHER ->
                   /\ Head(out) = "unexpected"
                   /\ CausedBy(Tail(out), Tail(parts))
\* the task has sent or is sending the error message of its `except`
Erred(t) ==
    \/ tasks[t].pc = "raised"
    \/ tasks[t].msg = "error"
    \/ \E i \in DOMAIN tasks[t].out : tasks[t].out[i] = "error"

\* C13: while a coroutine relays a response, the parts still to relay are a
\* suffix of the response and what it has sent so far is exactly what the
\* parts before that suffix caused, part by part in their order; so every
\* output of part i is sent before any output of a later part j.
C13_OutputsInPartOrder ==
    \A t \in Answerers :
       /\ Len(tasks[t].resp) <= Len(tasks[t].response)
       /\ tasks[t].resp =
             SubSeq(tasks[t].response,
                    Len(tasks[t].response) - Len(tasks[t].resp) + 1,
                    Len(tasks[t].response))
       /\ tasks[t].pc \in {"dispatch", "done"} /\ ~Erred(t) =>
             CausedBy(tasks[t].out, Consumed(t))
       /\ tasks[t].pc = "notice" =>
             CausedBy(SubSeq(tasks[t].out, 1, Len(tasks[t].out) - 1),
                      Consumed(t))

\* C13 witness: a flush task relayed the three parts of one response, each
\* send succeeding.
C13_Witness ==
    \E t \in Answerers :
       /\ tasks[t].kind = "flush"
       /\ tasks[t].response = <<"text", "blob", "other">>
       /\ tasks[t].pc = "done"
       /\ tasks[t].out = <<"text", "photo", "unexpected">>

\* C14: a photo that cannot be sent does not end the relaying: the step in
\* which the photo send fails leaves the coroutine about to send the notice,
\* the parts after the blob still to come; as long as nothing else has
\* failed the coroutine then sends the notice and goes on; and a coroutine
\* that finished relaying <<text, blob, other>> without its error message
\* has sent one text, made one photo send (followed by the notice when it
\* failed) and sent one 'unexpected' notice, in that order.
C14_DispatchGoesOn ==
    /\ [][\A t \in Tasks :
             (/\ tasks[t].pc = "dispatch" /\ Head(tasks[t].resp) = "blob"
              /\ tasks'[t] # tasks[t] /\ failures' # failures) =>
                /\ tasks'[t].pc = "notice"
                /\ tasks'[t].resp = tasks[t].resp
                /\ tasks'[t].out = Append(tasks[t].out, "photo_failed")]_vars
    /\ [](\A t \in Answerers :
          /\ (failures <= 1 /\ \E i \in DOMAIN tasks[t].out :
                                    tasks[t].out[i] = "photo_failed") =>
                /\ ~Erred(t)
                /\ tasks[t].pc \in {"notice", "dispatch", "done"}
          /\ tasks[t].pc = "notice" =>
                /\ Last(tasks[t].out) = "photo_failed"
                /\ tasks[t].resp # <<>> /\ Head(tasks[t].resp) = "blob"
          /\ (tasks[t].response = <<"text", "blob", "other">>
                /\ tasks[t].pc = "done" /\ ~Erred(t)) =>
                tasks[t].out \in
                   { <<"text", "photo", "unexpected">>,
                     <<"text", "photo_failed", "photo_error", "unexpected">> })

\* C14 witness: the photo of <<text, blob, other>> could not be sent, and
\* the coroutine finished with the notice and the 'unexpected' notice.
C14_Witness ==
    \E t \in Answerers :
       /\ tasks[t].kind = "audio"
       /\ tasks[t].response = <<"text", "blob", "other">>
       /\ tasks[t].pc = "done"
       /\ tasks[t].out =
             <<"text", "photo_failed", "photo_error", "unexpected">>

(* C15, C16: failures *)
\* the coroutine ended with an exception nobody caught
Escaped(t) == tasks[t].pc = "raised"
\* the coroutine has begun on the request for its message: it has files to
\* download, files downloaded or a response to relay
OnRequest(t) ==
    \/ tasks[t].pending # <<>>
    \/ tasks[t].got # <<>>
    \/ tasks[t].response # <<>>

\* C15: as long as at most one call has failed (so that the error message
\* itself can be sent), no message handler and no media group flush task
\* that has begun on its request ends with an escaped exception: the
\* failure of a download, of the backend call or of a send of the dispatch
\* is caught and answered with the error message.
C15_RequestFailureReported ==
    failures <= 1 =>
       \A t \in Tasks : Escaped(t) => tasks[t].kind # "flush" /\ ~OnRequest(t)

\* the handlers main registers for the inbound events of a chat
EventHandlers ==
    {"start", "clear", "settemp", "text", "image", "sticker", "audio",
     "voice"}

\* C16: no handler of an inbound event ends with an escaped exception, even
\* when a single call (session creation, a platform call, the backend call)
\* fails during its invocation.
C16_NoErrorEscapesHandler ==
    failures <= 1 =>
       \A t \in Tasks : tasks[t].kind \in EventHandlers => ~Escaped(t)

(* C17: the session store after a failed message *)
\* the handling of a message by coroutine t met a download, backend or
\* dispatch failure
FailedHandling(t) ==
    /\ tasks[t].kind \in MediaKinds
    /\ OnRequest(t)
    /\ Erred(t)
\* the session a message handler works with: the one it found on entry or,
\* for a chat without one, the one it created on entry
SessionOf(t) ==
    IF tasks[t].before # None THEN tasks[t].before[1]
    ELSE CHOOSE h \in DOMAIN history : history[h].by = t
\* u is the next handler of t's chat after t
NextHandler(t, u) ==
    /\ t < u /\ tasks[u].chat = tasks[t].chat /\ tasks[u].kind # "flush"
    /\ \A v \in Tasks : t < v /\ v < u => tasks[v].kind = "flush"

Entry(dict, key) == IF Has(dict, key) THEN Some(dict[key]) ELSE None
\* chat c's session handle, stored temperature and pending batches are the
\* same after the step as before it
ChatUntouched(c) ==
    /\ Entry(chat_contexts', c) = Entry(chat_contexts, c)
    /\ Entry(chat_temperatures', c) = Entry(chat_temperatures, c)
    /\ media_groups'[c] = media_groups[c]
\* the step is the entry of a handler for chat a, or a step of a coroutine
\* (handler or flush task) running for chat a
ActsFor(a) ==
    \/ /\ Len(tasks') > Len(tasks)
       /\ tasks'[Len(tasks) + 1].chat = a
    \/ \E t \in Tasks : tasks'[t] # tasks[t] /\ tasks[t].chat = a

\* C18: a step of a handler or of a flush task running for chat a, failing
\* or not, leaves the session handle, the stored temperature and the
\* pending batches of every other chat as they were; and a step of the
\* flush task of batch id g leaves every pending batch of its chat with
\* another id as it was.
C18_OtherChatsAndBatchesUntouched ==
    /\ [][\A a \in Chats : ActsFor(a) =>
             \A b \in Chats \ {a} : ChatUntouched(b)]_vars
    /\ [][\A t \in Tasks :
             tasks[t].kind = "flush" /\ tasks'[t] # tasks[t] =>
                \A g \in GroupIds \ {tasks[t].mgid[1]} :
                   Entry(media_groups'[tasks[t].chat], g) =
                      Entry(media_groups[tasks[t].chat], g)]_vars

\* C18 witness: a flush task of chat c1 has popped batch g1 and failed while
\* c1's batch g2 is pending and chat c2 has a stored temperature.
C18_Witness ==
    \E t \in Tasks :
       /\ tasks[t].kind = "flush" /\ tasks[t].chat = "c1"
       /\ tasks[t].mgid = Some("g1") /\ Escaped(t)
       /\ Has(media_groups["c1"], "g2")
       /\ Has(chat_temperatures, "c2")

(* C19: the backend credential *)
\* C19: a process whose backend credential is missing never begins
\* serving, and no handler of an inbound event ever runs in it.
C19_NoServiceWithoutCredential ==
    ~process.GEMINI_API_KEY =>
       /\ process.state # "serving"
       /\ tasks = <<>>

(* C20: overlapping handlers of a new chat *)
\* the handles coroutine t created
CreatedBy(t) == {h \in DOMAIN history : history[h].by = t}
\* coroutine t is a handler that started while its chat had no session and
\* has got past `if chat_id not in chat_contexts`
SawNewChat(t) ==
    /\ tasks[t].kind # "flush"
    /\ tasks[t].before = None
    /\ ~Escaped(t)
    /\ tasks[t].kind = "start" => tasks[t].pc = "done"

IsPriming(turn) ==
    /\ turn.role = "system"
    /\ turn.parts = <<TextPart("PREFIX_SYS")>>
\* the user turns of conversation h
UserTurnsOf(h) ==
    {i \in DOMAIN history[h].turns : history[h].turns[i].role = "user"}

\* C21: in the step in which a /clear stores a new session for a chat, the
\* history of that session is the priming turn alone: it holds no user
\* turn, in particular none of the session it replaces.
C21_ClearInstallsPrimedSession ==
    [][\A c \in Chats :
          (/\ Has(chat_contexts', c)
           /\ Entry(chat_contexts', c) # Entry(chat_contexts, c)
           /\ tasks'[history'[chat_contexts'[c]].by].kind = "clear") =>
             LET turns == history'[chat_contexts'[c]].turns IN
             /\ Len(turns) = 1
             /\ IsPriming(turns[1])
             /\ \A i \in DOMAIN turns : turns[i].role # "user"]_vars

\* C21 witness: a /clear has replaced a session that had received a user
\* turn, and the session now stored has the priming turn only.
C21_Witness ==
    \E c \in Chats, old \in DOMAIN history :
       /\ Has(chat_contexts, c)
       /\ history[old].chat = c /\ old # chat_contexts[c]
       /\ UserTurnsOf(old) # {}
       /\ tasks[history[chat_contexts[c]].by].kind = "clear"
       /\ Len(history[chat_contexts[c]].turns) = 1

\* C22: every conversation ever created, and so every handle ever stored,
\* begins with the priming turn, sent by the coroutine that created it; it
\* has no second priming turn, every user turn comes after the priming
\* turn, and a stored handle always names a conversation that has been
\* primed.
C22_PrimedBeforeUse ==
    /\ \A h \in DOMAIN history :
          LET turns == history[h].turns IN
          /\ Len(turns) >= 1
          /\ IsPriming(turns[1])
          /\ turns[1].by = history[h].by
          /\ \A i \in DOMAIN turns : i > 1 => turns[i].role = "user"
    /\ \A c \in Chats :
          Has(chat_contexts, c) =>
             /\ chat_contexts[c] \in DOMAIN history
             /\ history[chat_contexts[c]].chat = c
             /\ Len(history[chat_contexts[c]].turns) >= 1

\* C22 witness: a stored conversation has received two user turns after its
\* priming turn.
C22_Witness ==
    \E c \in Chats :
       /\ Has(chat_contexts, c)
       /\ Cardinality(UserTurnsOf(chat_contexts[c])) = 2
       /\ IsPriming(history[chat_contexts[c]].turns[1])

\* the step is a step of a /start handler for chat c: its entry, or the
\* return of its greeting followed by the session test
StartStep(c) ==
    \/ /\ Len(tasks') > Len(tasks)
       /\ tasks'[Len(tasks')].kind = "start" /\ tasks'[Len(tasks')].chat = c
    \/ \E t \in Tasks :
          /\ tasks[t].kind = "start" /\ tasks[t].chat = c
          /\ tasks'[t] # tasks[t]
\* a /start for chat c has completed and no other handler of the chat has
\* started since, except further /start
StartedLast(c) ==
    \E t \in TasksOf(c) :
       /\ tasks[t].kind = "start" /\ tasks[t].pc = "done"
       /\ \A u \in TasksOf(c) : u > t => tasks[u].kind \in {"start", "flush"}

\* C23: a step of /start for a chat that has a session changes no stored
\* session handle and no stored temperature; a completed /start leaves its
\* chat with a session; and once a /start has completed, the steps of every
\* /start that follows it in a row change nothing in the two stores, so any
\* number of /start in a row leave the stores as one /start does.
C23_StartIdempotent ==
    /\ [][\A c \in Chats :
             StartStep(c) /\ (Has(chat_contexts, c) \/ StartedLast(c)) =>
                /\ chat_contexts' = chat_contexts
                /\ chat_temperatures' = chat_temperatures]_vars
    /\ [](\A t \in Tasks :
             tasks[t].kind = "start" /\ tasks[t].pc = "done" =>
                Has(chat_contexts, tasks[t].chat))

\* C23 witness: a /start created the session of a chat, /settemp stored
\* 1.5, and a second /start has completed: the session of the first /start
\* and the 1.5 are still stored.
C23_Witness ==
    \E t \in Tasks, u \in Tasks :
       /\ t < u /\ tasks[t].chat = tasks[u].chat
       /\ tasks[t].kind = "start" /\ tasks[u].kind = "start"
       /\ tasks[u].pc = "done" /\ tasks[u].out = <<"welcome">>
       /\ Has(chat_contexts, tasks[t].chat)
       /\ history[chat_contexts[tasks[t].chat]].by = t
       /\ chat_temperatures = [c \in {tasks[t].chat} |-> 15]

\* C24: no step removes a chat's entry from the session store, and whenever
\* a handler or a flush task is on its way to sending its request (waiting
\* for its quiet period or for a download) its chat has a session, so the
\* lookup at the send finds one.
C24_SessionNeverAbsent ==
    /\ [][\A c \in Chats :
             Has(chat_contexts, c) => Has(chat_contexts', c)]_vars
    /\ [](\A t \in Tasks :
             tasks[t].pc \in {"sleep", "download"} =>
                Has(chat_contexts, tasks[t].chat))

\* C24 witness: a flush task has popped its batch and is about to send
\* while the session stored for its chat is one a /clear put in the place
\* of the session the batch was recorded under.
C24_Witness ==
    \E t \in Tasks :
       /\ tasks[t].kind = "flush" /\ tasks[t].pc = "download"
       /\ Has(chat_contexts, tasks[t].chat)
       /\ tasks[history[chat_contexts[tasks[t].chat]].by].kind = "clear"
       /\ history[chat_contexts[tasks[t].chat]].by > tasks[t].armedBy

\* C25: every live batch is eventually removed from the live set, its flush
\* task being resumed when its quiet period is over; as long as a batch is
\* live its flush task sleeps; and the batch a flush task has popped never
\* changes again: an item arriving later goes to another batch.
C25_BatchEventuallyFlushed ==
    /\ \A c \in Chats, g \in GroupIds :
          Has(media_groups[c], g) ~> ~Has(media_groups[c], g)
    /\ [](\A c \in Chats, g \in GroupIds :
             Has(media_groups[c], g) =>
                /\ media_groups[c][g].job # None
                /\ tasks[media_groups[c][g].job[1]].kind = "flush"
                /\ tasks[media_groups[c][g].job[1]].pc = "sleep")
    /\ [][\A t \in Tasks :
             tasks[t].kind = "flush" /\ tasks[t].pc # "sleep" =>
                tasks'[t].batch = tasks[t].batch]_vars

\* C25 witness: a flush task has popped its batch, and an item that came
\* afterwards with the same batch id is in a live batch of its own.
C25_Witness ==
    \E t \in Tasks, c \in Chats, g \in GroupIds :
       /\ tasks[t].kind = "flush" /\ tasks[t].chat = c
       /\ tasks[t].mgid = Some(g) /\ tasks[t].batch # None
       /\ Has(media_groups[c], g)
       /\ media_groups[c][g].job # Some(t)

\* C26: the step of a flush task whose quiet period ends while the live set
\* holds no batch with its id ends the task and changes nothing else: no
\* turn is sent to any conversation, no session, temperature or batch
\* changes, nothing fails, and the task has sent and will send no message.
C26_AbsentBatchNoOp ==
    /\ [][\A t \in Tasks :
             (/\ tasks[t].kind = "flush" /\ tasks[t].pc = "sleep"
              /\ tasks'[t] # tasks[t]
              /\ ~Has(media_groups[tasks[t].chat], tasks[t].mgid[1])) =>
                /\ tasks'[t] = [tasks[t] EXCEPT !.pc = "done"]
                /\ \A u \in Tasks \ {t} : tasks'[u] = tasks[u]
                /\ history' = history
                /\ chat_contexts' = chat_contexts
                /\ chat_temperatures' = chat_temperatures
                /\ media_groups' = media_groups
                /\ failures' = failures]_vars
    /\ [](\A t \in Tasks :
             tasks[t].kind = "flush" /\ tasks[t].batch = None =>
                /\ tasks[t].pc \in {"sleep", "done"}
                /\ tasks[t].out = <<>>
                /\ TurnsBy(t) = {})

\* C26 witness: a flush task has ended without a batch while another batch
\* of its chat is live.
C26_Witness ==
    \E t \in Tasks :
       /\ tasks[t].kind = "flush" /\ tasks[t].pc = "done"
       /\ tasks[t].batch = None
       /\ media_groups[tasks[t].chat] # EmptyDict

(* C27: mime types *)
\* the mime types of the blob parts of a turn
BlobMimes(turn) ==
    {turn.parts[i].mime :
        i \in {j \in DOMAIN turn.parts : turn.parts[j].kind = "blob"}}

\* C27: in every request sent to the backend the blob parts carry, for an
\* audio file, a voice message and a document, the mime type the platform
\* declared, and when it declared none audio/mpeg, audio/ogg and
\* application/octet-stream; for a photo, alone or in a media group,
\* image/jpeg; for a sticker image/png.
C27_MimeResolution ==
    \A t \in Tasks : \A x \in TurnsBy(t) :
       /\ BlobMimes(TurnOf(x)) # {}
       /\ \A mime \in BlobMimes(TurnOf(x)) :
             LET declared == tasks[t].declared
                 kind == tasks[t].kind
             IN  CASE kind \in {"audio", "voice", "file"} /\ declared # "" ->
                        mime = declared
                   [] kind = "audio" /\ declared = "" -> mime = "audio/mpeg"
                   [] kind = "voice" /\ declared = "" -> mime = "audio/ogg"
                   [] kind = "file" /\ declared = "" ->
                        mime = "application/octet-stream"
                   [] kind \in {"image", "flush"} -> mime = "image/jpeg"
                   [] kind = "sticker" -> mime = "image/png"
                   [] OTHER -> FALSE

\* C27 witness: the request of an audio file declared as audio/wav carries
\* audio/wav, that of a voice message without declared type audio/ogg and
\* that of a document without declared type application/octet-stream.
C27_Witness ==
    \E t \in Tasks, u \in Tasks, w \in Tasks :
       /\ tasks[t].kind = "audio" /\ tasks[t].declared = "audio/wav"
       /\ \E x \in TurnsBy(t) : BlobMimes(TurnOf(x)) = {"audio/wav"}
       /\ tasks[u].kind = "voice" /\ tasks[u].declared = ""
       /\ \E x \in TurnsBy(u) : BlobMimes(TurnOf(x)) = {"audio/ogg"}
       /\ tasks[w].kind = "file" /\ tasks[w].declared = ""
       /\ \E x \in TurnsBy(w) :
             BlobMimes(TurnOf(x)) = {"application/octet-stream"}

(* C28: the range of temperatures *)
\* the values /settemp handlers that began before coroutine t stored for
\* chat c (in tenths)
StoredBefore(c, t) ==
    {ParseFloat(tasks[u].args[1]).v :
        u \in {v \in Tasks : /\ v < t
                              /\ tasks[v].kind = "settemp"
                              /\ tasks[v].chat = c
                              /\ SetTempAnswer(tasks[v].args) = "tempset"}}

\* C28: every stored temperature lies in [0.0, 2.0], and the temperature of
\* every user request is the default 1.0 or a value of that range which a
\* /settemp stored for the same chat before the request's coroutine began.
C28_TemperatureInRange ==
    /\ \A c \in Chats :
          Has(chat_temperatures, c) =>
             MinTemp <= chat_temperatures[c] /\ chat_temperatures[c] <= MaxTemp
    /\ \A t \in Tasks : \A x \in TurnsBy(t) :
          LET v == TurnOf(x).temperature[1] IN
          \/ v = DEFAULT_TEMPERATURE
          \/ /\ MinTemp <= v /\ v <= MaxTemp
             /\ v \in StoredBefore(tasks[t].chat, t)

\* C28 witness: a request was sent with the boundary value 0.0 that a
\* /settemp had stored, and the boundary value 2.0 is stored now.
C28_Witness ==
    \E t \in Tasks :
       /\ \E x \in TurnsBy(t) : TurnOf(x).temperature = Some(0)
       /\ Has(chat_temperatures, tasks[t].chat)
       /\ chat_temperatures[tasks[t].chat] = 20

(* C29: /clear and the messages that arrived before it *)
\* the handler with which the content a coroutine sends began to arrive:
\* for a flush task the handler of the first item of its batch
ArrivedWith(t) == IF tasks[t].kind = "flush" THEN tasks[t].armedBy ELSE t

\* C29 as claimed: a session that a /clear created holds no user turn whose
\* content arrived before that /clear: every user turn in it was sent by a
\* handler that began after the /clear, or by the flush task of a batch
\* whose first item came after the /clear.
C29_NoOldContentAfterClear ==
    \A h \in DOMAIN history :
       tasks[history[h].by].kind = "clear" =>
          \A i \in DOMAIN history[h].turns :
             history[h].turns[i].role = "user" =>
                ArrivedWith(history[h].turns[i].by) > history[h].by

\* the same for the requests the message handlers send themselves
C29_HandlersOnly ==
    \A h \in DOMAIN history :
       tasks[history[h].by].kind = "clear" =>
          \A i \in DOMAIN history[h].turns :
             /\ history[h].turns[i].role = "user"
             /\ tasks[history[h].turns[i].by].kind # "flush"
             => history[h].turns[i].by > history[h].by

(* C30: what changes a stored temperature *)
\* this step removes or changes the temperature stored for chat c
TemperatureTouched(c) ==
    /\ Has(chat_temperatures, c)
    /\ \/ ~Has(chat_temperatures', c)
       \/ chat_temperatures'[c] # chat_temperatures[c]
\* this step is the start of a handler of one of the kinds for chat c
Begins(kinds, c) ==
    /\ Len(tasks') = Len(tasks) + 1
    /\ tasks'[Len(tasks')].kind \in kinds
    /\ tasks'[Len(tasks')].chat = c
\* this step resumes a /start handler of chat c
StartGoesOn(c) ==
    \E t \in Tasks :
       /\ tasks[t].kind = "start" /\ tasks[t].chat = c
       /\ tasks'[t] # tasks[t]

\* C30 as claimed: a stored temperature is removed or changed only by a step
\* of a /settemp or a /clear for its chat; no step of /start, of a message
\* handler or of a flush task removes or changes it.
C30_StoredTemperatureStays ==
    [][\A c \in Chats :
          TemperatureTouched(c) => Begins({"settemp", "clear"}, c)]_vars

\* the same with the steps of /start set aside
C30_ExceptStart ==
    [][\A c \in Chats :
          TemperatureTouched(c) =>
             Begins({"settemp", "clear"}, c) \/ StartGoesOn(c)]_vars

(* properties: C31 .. C34 *)
\* C31: a batch is live exactly when one flush task created for it has not
\* fired yet (and there is never more than one such task for a batch id);
\* the live batch names that task as its job; and every flush task whose
\* timer has fired found a batch, the one that names it as its job and that
\* the handler which created the task had begun.
C31_LiveIffOneSleepingFlush ==
    /\ \A c \in Chats, g \in GroupIds :
          /\ Cardinality(Sleeping(c, g)) <= 1
          /\ Has(media_groups[c], g) <=> Cardinality(Sleeping(c, g)) = 1
          /\ Has(media_groups[c], g) =>
                \A t \in Sleeping(c, g) : media_groups[c][g].job = Some(t)
    /\ \A t \in Tasks :
          tasks[t].kind = "flush" /\ tasks[t].pc # "sleep" =>
             /\ tasks[t].batch # None
             /\ tasks[t].batch[1].job = Some(t)
             /\ tasks[t].batch[1].from[1] = tasks[t].armedBy

\* C31 witness: of two flush tasks created for the same batch id the first
\* has fired and popped a batch of two items, and the second sleeps while
\* the batch of the later item is live.
C31_Witness ==
    \E t1, t2 \in Tasks :
       /\ t1 < t2
       /\ tasks[t1].kind = "flush" /\ tasks[t2].kind = "flush"
       /\ tasks[t1].mgid = tasks[t2].mgid
       /\ tasks[t1].pc # "sleep" /\ Len(tasks[t1].batch[1].from) = 2
       /\ tasks[t2].pc = "sleep"
       /\ Has(media_groups[tasks[t2].chat], tasks[t2].mgid[1])

(* C32: the items of the media groups *)
\* the batches there have been: the live ones and the ones the flush tasks
\* popped, each named by its flush task
BatchOf(u) ==
    IF tasks[u].pc = "sleep"
    THEN media_groups[tasks[u].chat][tasks[u].mgid[1]]
    ELSE tasks[u].batch[1]
\* the places <<flush task, index>> at which the item that handler t
\* received is recorded
PlacesOf(t) ==
    {x \in UNION {{<<u, i>> : i \in DOMAIN BatchOf(u).from} :
                     u \in FlushTasks} : BatchOf(x[1]).from[x[2]] = t}
\* the photo sizes that are the input of the deduplication of flush task u
InputOf(u) ==
    LET all_photos == AllPhotos(BatchOf(u).photos) IN
    {all_photos[i] : i \in DOMAIN all_photos}

\* C32: every item a handler has recorded is in exactly one batch, at one
\* place, of the chat and batch id it came with, with the photo sizes it
\* came with; the batch is live or was popped by exactly one flush task,
\* and all photo sizes of the item are in the input of that task's
\* deduplication.
C32_ItemInExactlyOneFlush ==
    /\ \A u \in FlushTasks :
          Len(BatchOf(u).photos) = Len(BatchOf(u).from)
    /\ \A t \in GroupHandlers :
          /\ Cardinality(PlacesOf(t)) = 1
          /\ \A x \in PlacesOf(t) :
                /\ tasks[x[1]].chat = tasks[t].chat
                /\ tasks[x[1]].mgid = tasks[t].mgid
                /\ BatchOf(x[1]).photos[x[2]] = tasks[t].photo
                /\ \A i \in DOMAIN tasks[t].photo :
                      tasks[t].photo[i] \in InputOf(x[1])

\* C32 witness: a flush task has popped a batch of two items with different
\* photo lists while a third item with the same batch id, which came after
\* the pop, is in a live batch.
C32_Witness ==
    \E u \in FlushTasks, t \in GroupHandlers :
       /\ tasks[u].pc # "sleep"
       /\ Len(tasks[u].batch[1].photos) = 2
       /\ tasks[u].batch[1].photos[1] # tasks[u].batch[1].photos[2]
       /\ t > u /\ tasks[t].mgid = tasks[u].mgid
       /\ \E x \in PlacesOf(t) : tasks[x[1]].pc = "sleep"

(* C33: videos *)
\* coroutine t handles a video, or a sticker that is animated or a video
Unsupported(t) ==
    \/ tasks[t].kind = "video"
    \/ tasks[t].kind = "sticker" /\ tasks[t].animated
\* this step begins or resumes a video handler
VideoStep ==
    \/ /\ Len(tasks') = Len(tasks) + 1
       /\ tasks'[Len(tasks')].kind = "video"
    \/ \E t \in Tasks : tasks[t].kind = "video" /\ tasks'[t] # tasks[t]

\* C33: the handler of a video, or of a sticker that is animated or a video,
\* downloads nothing and sends no user request; the first message it sends
\* is the notice that videos are not supported, and when it has returned
\* without an error the notice is all it has sent.  No step of the video
\* handler changes the session store or the temperature store.
C33_VideoOnlyNotice ==
    /\ [](\A t \in Tasks :
             Unsupported(t) =>
                /\ TurnsBy(t) = {}
                /\ tasks[t].pending = <<>> /\ tasks[t].got = <<>>
                /\ tasks[t].pc = "reply" =>
                      tasks[t].msg \in {"video_unsupported", "error"}
                /\ tasks[t].pc = "done" /\ ~Erred(t) =>
                      tasks[t].out = <<"video_unsupported">>)
    /\ [][VideoStep =>
             /\ chat_contexts' = chat_contexts
             /\ chat_temperatures' = chat_temperatures
             /\ history' = history]_vars

\* C33 witness: in a chat with a stored temperature a video and an animated
\* sticker have both been answered with the notice; the sticker's handler
\* created the chat's session, the video's did not.
C33_Witness ==
    \E t, u \in Tasks :
       /\ tasks[t].kind = "video" /\ tasks[u].kind = "sticker"
       /\ tasks[u].animated /\ t < u
       /\ tasks[t].chat = tasks[u].chat
       /\ tasks[t].out = <<"video_unsupported">>
       /\ tasks[u].out = <<"video_unsupported">>
       /\ Has(chat_temperatures, tasks[t].chat)
       /\ CreatedBy(u) # {}

(* C34: a text that cannot be sent *)
\* the message handlers that send their request themselves
Senders == {t \in Tasks : tasks[t].kind \in MediaKinds \cup {"file"}}
\* the number of error messages coroutine t has sent
ErrorsSent(t) ==
    Cardinality({i \in DOMAIN tasks[t].out : tasks[t].out[i] = "error"})
\* in this step a send of the dispatch loop of coroutine t raises
SendFails(t) ==
    /\ tasks[t].pc \in {"dispatch", "notice"}
    /\ tasks'[t] # tasks[t]
    /\ failures' # failures

\* C34: when a send of the dispatch loop of a message handler raises, the
\* handler leaves the loop for its error message, the remaining parts
\* dropped and nothing more relayed, unless the send was the send_photo of a
\* blob part, after which the loop goes on with the notice; this holds in
\* particular for the send of a text part.  The error message is the last
\* thing a handler sends and it sends it once: a handler that returned after
\* a failed text send has sent exactly one.
C34_TextFailureEndsDispatch ==
    /\ [][\A t \in Senders :
             SendFails(t) =>
                IF tasks[t].pc = "dispatch" /\ Head(tasks[t].resp) = "blob"
                THEN tasks'[t].pc = "notice" /\ tasks'[t].resp = tasks[t].resp
                ELSE /\ tasks'[t].pc = "reply" /\ tasks'[t].msg = "error"
                     /\ tasks'[t].resp = <<>>
                     /\ tasks'[t].out = tasks[t].out]_vars
    /\ [](\A t \in Senders :
             /\ ErrorsSent(t) <= 1
             /\ ErrorsSent(t) = 1 =>
                   /\ Last(tasks[t].out) = "error"
                   /\ tasks[t].pc = "done" /\ tasks[t].resp = <<>>
             /\ (tasks[t].pc = "reply" /\ tasks[t].msg = "error") =>
                   ErrorsSent(t) = 0 /\ tasks[t].resp = <<>>
             /\ (tasks[t].pc = "done" /\ tasks[t].response # <<>>
                   /\ Len(tasks[t].out) < Len(tasks[t].response)) =>
                   ErrorsSent(t) = 1)

\* C34 witness: the response was a photo, a text and a part of another kind;
\* the photo was sent, the send of the text raised, and the handler returned
\* after its one error message without the notice for the third part.
C34_Witness ==
    \E t \in Senders :
       /\ tasks[t].response = <<"blob", "text", "other">>
       /\ tasks[t].pc = "done"
       /\ tasks[t].out = <<"photo", "error">>
====
